---- MODULE Spec2Model ----
(***************************************************************************)
(* Model of the live configuration reloader (package reloader:             *)
(* Reloader.reloadConfig, Reloader.reloadCheckAt, Reloader.Watch) and of   *)
(* the serve command (cmd.serve) of the auth service.                      *)
(*                                                                         *)
(* Time is discrete.  One unit is 1/Second of a second, so that events can *)
(* fall between two ticks of the ticker.  A handler of the Watch loop runs *)
(* in zero time, except for the two external calls it blocks in            *)
(* (conf.LoadGlobalFiles and the callback fn), during which time passes.   *)
(* A goroutine blocked in select with a channel ready proceeds before the  *)
(* clock advances; which ready case it takes is a free choice, as in Go.   *)
(***************************************************************************)
EXTENDS Integers, Sequences, FiniteSets, TLC

\* ------------------------------------------------------------------ bounds

\* Clock units per second (the resolution of the model's clock).
Second == 2

\* The clock stops here.
MaxTime == 41

\* Filesystem operations the environment performs in one behaviour.
MaxOps == 2

\* Notifications the watcher holds for the loop at one time.
MaxQueue == 2

\* Connections httpSrv serves at one time.
MaxConns == 2

\* --------------------------------------------------------------- constants

reloadInterval == Second * 10

tickerInterval == reloadInterval \div 10

\* time.Minute
Minute == 60 * Second

\* time.Time{}: the zero time lies further in the past than any duration the
\* loop compares with (time.Time.Sub saturates for it).
ZeroTime == 0 - (MaxTime + reloadInterval + 1)

IsZero(t) == t = ZeroTime

Sub(a, b) == a - b

\* The Reloader NewReloader returns.
rl == [watchDir |-> <<"w">>, reloadIval |-> reloadInterval, tickerIval |-> tickerInterval]

\* ------------------------------------------------------------------- names

\* File names are sequences of characters.
EnvSuffix == <<".", "e", "n", "v">>

NameA == <<"a">> \o EnvSuffix

NameB == <<"b">> \o EnvSuffix

NameC == <<"c", ".", "t", "x", "t">>

FileNames == {NameA, NameB, NameC}

\* Byte values of the characters used, which order file names.
Code == [c \in {".", "/", "a", "b", "c", "d", "e", "n", "t", "v", "w", "x"} |->
           CASE c = "." -> 46 [] c = "/" -> 47 [] c = "a" -> 97 [] c = "b" -> 98
             [] c = "c" -> 99 [] c = "d" -> 100 [] c = "e" -> 101 [] c = "n" -> 110
             [] c = "t" -> 116 [] c = "v" -> 118 [] c = "w" -> 119 [] c = "x" -> 120]

\* strings.HasSuffix
HasSuffix(s, suffix) ==
    /\ Len(s) >= Len(suffix)
    /\ SubSeq(s, Len(s) - Len(suffix) + 1, Len(s)) = suffix

RECURSIVE StrLess(_, _)
\* s < t, byte-wise, as Go compares strings.
StrLess(s, t) ==
    IF t = <<>> THEN FALSE
    ELSE IF s = <<>> THEN TRUE
    ELSE IF Code[Head(s)] # Code[Head(t)] THEN Code[Head(s)] < Code[Head(t)]
    ELSE StrLess(Tail(s), Tail(t))

RECURSIVE SortByName(_)
\* The entries of a directory, sorted by filename.
SortByName(ents) ==
    IF ents = {} THEN <<>>
    ELSE LET first == CHOOSE e \in ents : \A o \in ents \ {e} : StrLess(e.name, o.name)
         IN <<first>> \o SortByName(ents \ {first})

RECURSIVE SortByNameDesc(_)
SortByNameDesc(ents) ==
    IF ents = {} THEN <<>>
    ELSE LET last == CHOOSE e \in ents : \A o \in ents \ {e} : StrLess(o.name, e.name)
         IN <<last>> \o SortByNameDesc(ents \ {last})

\* Variant of ReadDir for mutation: the entries come in descending order.
ReadDirDescending(d) == SortByNameDesc(d)

\* os.ReadDir of an existing directory.
ReadDir(d) == SortByName(d)

\* filepath.Join(rl.watchDir, name)
JoinPath(name) == rl.watchDir \o <<"/">> \o name

RECURSIVE EnvPathsWithDirs(_)
\* Variant of EnvPaths for mutation: directories are not skipped.
EnvPathsWithDirs(ents) ==
    IF ents = <<>> THEN <<>>
    ELSE LET ent == Head(ents)
         IN IF ~HasSuffix(ent.name, EnvSuffix) THEN EnvPathsWithDirs(Tail(ents))
            ELSE <<JoinPath(ent.name)>> \o EnvPathsWithDirs(Tail(ents))

RECURSIVE EnvPaths(_)
\* The loop of reloadConfig over the entries: directories and names without
\* the .env suffix are skipped.
EnvPaths(ents) ==
    IF ents = <<>> THEN <<>>
    ELSE LET ent == Head(ents)
         IN IF ent.isDir THEN EnvPaths(Tail(ents))
            ELSE IF ~HasSuffix(ent.name, EnvSuffix) THEN EnvPaths(Tail(ents))
            ELSE <<JoinPath(ent.name)>> \o EnvPaths(Tail(ents))

\* Variant of reloadCheckAt for mutation: the debounce compares with the
\* ticker interval.
reloadCheckAtTickerIval(at, lastUpd) ==
    IF IsZero(lastUpd) THEN FALSE
    ELSE IF Sub(at, lastUpd) < rl.tickerIval THEN FALSE
    ELSE TRUE

\* Variant of reloadCheckAt for mutation: an update exactly reloadIval old
\* is not yet due.
reloadCheckAtStrictlyOlder(at, lastUpd) ==
    IF IsZero(lastUpd) THEN FALSE
    ELSE IF Sub(at, lastUpd) <= rl.reloadIval THEN FALSE
    ELSE TRUE

\* Variant of reloadCheckAt for mutation: no check for the zero time.
reloadCheckAtNoZero(at, lastUpd) ==
    IF Sub(at, lastUpd) < rl.reloadIval THEN FALSE
    ELSE TRUE

reloadCheckAt(at, lastUpd) ==
    IF IsZero(lastUpd) THEN FALSE
    ELSE IF Sub(at, lastUpd) < rl.reloadIval THEN FALSE
    ELSE TRUE

\* fsnotify.Op.Has: an Op is a set of operation bits.
Has(op, bit) == bit \in op

Ops == {{"Create"}, {"Write"}, {"Remove"}, {"Rename"}, {"Chmod"}, {"Write", "Chmod"}}

\* ------------------------------------------------------------------- state

VARIABLES
    now,            \* the clock
    pc,             \* where Watch is: "select", "loading", "callback", "done"
    lastUpdate,     \* Watch's local lastUpdate
    tickPending,    \* a tick is buffered in tr.C
    events,         \* notifications waiting on wr.Events
    errPending,     \* an error is waiting on wr.Errors
    closed,         \* the watcher has closed wr.Events and wr.Errors
    ctxDone,        \* ctx is cancelled
    retval,         \* what Watch returned
    dirExists,      \* the watch directory exists
    watched,        \* the watch directory is in the watcher's watch list
    dir,            \* the entries of the watch directory
    nOps,           \* filesystem operations performed so far
    \* history of the run, read by the properties only
    attempts,       \* calls of reloadConfig started
    lastAttemptAt,  \* when the last one started
    qualAtAttempt,  \* nQual when it started
    lastPaths,      \* the paths it handed to conf.LoadGlobalFiles
    lastResult,     \* how it ended: "none", "inflight", "readdir", "load", "ok"
    nFail,          \* attempts that failed
    fnCalls,        \* calls of fn
    nQual,          \* qualifying notifications handled
    firstQualAt,    \* when the first one was handled
    lastQualAt,     \* when the last one was handled
    nSeen,          \* notifications handled, qualifying or not
    cancelPc,       \* pc when ctx was cancelled, "none" before
    \* serve
    serveCtxDone,   \* the ctx serve was called with is cancelled
    baseCtxDone,    \* baseCtx is cancelled
    wg,             \* the counter of the WaitGroup
    srvPc,          \* where serve is
    goPc,           \* where the goroutine serve starts is
    listening,      \* httpSrv accepts connections
    inShutdown,     \* httpSrv.Shutdown has been called
    shutdownErr,    \* what httpSrv.Shutdown returned, "none" before
    elapsed,        \* time since httpSrv.Shutdown was called
    conns,          \* connections httpSrv is processing a request of
    dbOpen,         \* db is open
    \* single calls of reloadCheckAt and of reloadConfig
    argAt,          \* the argument at of reloadCheckAt
    argLastUpdate,  \* the argument lastUpdate of reloadCheckAt
    checkResult,    \* what reloadCheckAt returned
    dirEnts,        \* the entries of the directory reloadConfig reads
    loadPaths,      \* the paths reloadConfig hands to conf.LoadGlobalFiles
    callPc          \* "idle" before the call, "returned" after it

loopVars == <<pc, lastUpdate, retval>>

chanVars == <<tickPending, events, errPending, closed, ctxDone>>

fsVars == <<dirExists, watched, dir, nOps>>

attemptVars == <<attempts, lastAttemptAt, qualAtAttempt, lastPaths>>

histVars == <<lastResult, nFail, fnCalls, nQual, firstQualAt, lastQualAt, nSeen, cancelPc>>

watchVars == <<now, loopVars, chanVars, fsVars, attemptVars, histVars>>

serveVars == <<serveCtxDone, baseCtxDone, wg, srvPc, goPc, listening, inShutdown,
               shutdownErr, elapsed, conns, dbOpen>>

callVars == <<argAt, argLastUpdate, checkResult, dirEnts, loadPaths, callPc>>

vars == <<watchVars, serveVars, callVars>>

File(name) == [name |-> name, isDir |-> FALSE]

\* serve at line 78, about to call httpSrv.ListenAndServe: the configuration
\* is loaded, db is open, wg.Add(1) is done and the goroutine is started.
ServeInit ==
    /\ serveCtxDone = FALSE
    /\ baseCtxDone = FALSE
    /\ wg = 1
    /\ srvPc = "listen"
    /\ goPc = "waitCtx"
    /\ listening = FALSE
    /\ inShutdown = FALSE
    /\ shutdownErr = "none"
    /\ elapsed = 0
    /\ conns = {}
    /\ dbOpen = TRUE

\* No single call is under way.
CallInit ==
    /\ argAt = 0
    /\ argLastUpdate = ZeroTime
    /\ checkResult = FALSE
    /\ dirEnts = {}
    /\ loadPaths = <<>>
    /\ callPc = "idle"

\* The state when Watch reaches its loop: the watcher and the ticker are
\* created, wr.Add has been tried once, lastUpdate is the zero time.
WatchInit ==
    /\ now = 0
    /\ pc = "select"
    /\ lastUpdate = ZeroTime
    /\ tickPending = FALSE
    /\ events = <<>>
    /\ errPending = FALSE
    /\ closed = FALSE
    /\ ctxDone = FALSE
    /\ retval = "none"
    /\ dirExists \in BOOLEAN
    /\ watched = dirExists
    /\ dir = {}
    /\ nOps = 0
    /\ attempts = 0
    /\ lastAttemptAt = ZeroTime
    /\ qualAtAttempt = 0
    /\ lastPaths = <<>>
    /\ lastResult = "none"
    /\ nFail = 0
    /\ fnCalls = 0
    /\ nQual = 0
    /\ firstQualAt = ZeroTime
    /\ lastQualAt = ZeroTime
    /\ nSeen = 0
    /\ cancelPc = "none"

Init ==
    /\ WatchInit
    /\ ServeInit
    /\ CallInit

\* ------------------------------------------------------------- environment

\* A channel of the select is ready.
Ready == tickPending \/ events # <<>> \/ errPending \/ closed \/ ctxDone

\* One unit of time passes; the ticker sends a tick every tickerIval, which
\* is dropped when one is buffered already.
Advance ==
    /\ now < MaxTime
    /\ pc # "done"
    /\ pc = "select" => ~Ready
    /\ now' = now + 1
    /\ tickPending' = (tickPending \/ (now + 1) % rl.tickerIval = 0)
    /\ UNCHANGED <<loopVars, events, errPending, closed, ctxDone, fsVars, attemptVars,
                   histVars, serveVars, callVars>>

\* The directory after an operation on one of its files.
DirAfter(name, op) ==
    IF Has(op, "Create") THEN dir \cup {File(name)}
    ELSE IF Has(op, "Remove") \/ Has(op, "Rename") THEN dir \ {File(name)}
    ELSE dir

\* A file of the watch directory is created, written, removed, renamed away
\* or has its mode changed; a watched directory yields a notification.
FsOp(name, op) ==
    /\ dirExists
    /\ nOps < MaxOps
    /\ Has(op, "Create") <=> File(name) \notin dir
    /\ watched /\ ~closed => Len(events) < MaxQueue
    /\ dir' = DirAfter(name, op)
    /\ nOps' = nOps + 1
    /\ events' = IF watched /\ ~closed
                 THEN Append(events, [Name |-> name, Op |-> op])
                 ELSE events
    /\ UNCHANGED <<callVars, serveVars, now, loopVars, tickPending, errPending, closed, ctxDone,
                   dirExists, watched, attemptVars, histVars>>

\* The watch directory is removed; the watcher drops its watch.
RemoveDir ==
    /\ dirExists
    /\ nOps < MaxOps
    /\ dirExists' = FALSE
    /\ watched' = FALSE
    /\ dir' = {}
    /\ nOps' = nOps + 1
    /\ UNCHANGED <<callVars, serveVars, now, loopVars, chanVars, attemptVars, histVars>>

\* The watch directory is created.
CreateDir ==
    /\ ~dirExists
    /\ nOps < MaxOps
    /\ dirExists' = TRUE
    /\ nOps' = nOps + 1
    /\ UNCHANGED <<callVars, serveVars, now, loopVars, chanVars, watched, dir, attemptVars, histVars>>

\* The caller cancels ctx.
Cancel ==
    /\ ~ctxDone
    /\ pc # "done"
    /\ ctxDone' = TRUE
    /\ cancelPc' = pc
    /\ UNCHANGED <<callVars, serveVars, now, loopVars, tickPending, events, errPending, closed, fsVars,
                   attemptVars, lastResult, nFail, fnCalls, nQual, firstQualAt, lastQualAt, nSeen>>

\* The watcher reports an error.
WatcherError ==
    /\ ~closed
    /\ ~errPending
    /\ pc # "done"
    /\ errPending' = TRUE
    /\ UNCHANGED <<callVars, serveVars, now, loopVars, tickPending, events, closed, ctxDone, fsVars,
                   attemptVars, histVars>>

\* The watcher exits and closes its channels.
WatcherExit ==
    /\ ~closed
    /\ pc # "done"
    /\ closed' = TRUE
    /\ events' = <<>>
    /\ errPending' = FALSE
    /\ watched' = FALSE
    /\ UNCHANGED <<callVars, serveVars, now, loopVars, tickPending, ctxDone, dirExists, dir, nOps,
                   attemptVars, histVars>>

\* ---------------------------------------------------------------- the loop

\* case <-ctx.Done()
WatchCtxDone ==
    /\ pc = "select"
    /\ ctxDone
    /\ pc' = "done"
    /\ retval' = "ctxErr"
    /\ UNCHANGED <<callVars, serveVars, now, lastUpdate, chanVars, fsVars, attemptVars, histVars>>

\* Variant of AddWatch for mutation: the tick does not register the
\* directory again.
AddWatchNotRetried == watched

\* wr.Add(rl.watchDir): fails when the directory does not exist or the
\* watcher is closed.
AddWatch == IF dirExists /\ ~closed THEN TRUE ELSE watched

\* Variant of WatchTick for mutation: lastUpdate is not reset before the
\* reload.
WatchTickNoReset ==
    /\ pc = "select"
    /\ tickPending
    /\ tickPending' = FALSE
    /\ watched' = AddWatch
    /\ IF ~reloadCheckAt(now, lastUpdate)
       THEN UNCHANGED <<loopVars, attemptVars, lastResult, nFail>>
       ELSE /\ lastUpdate' = lastUpdate
            /\ attempts' = attempts + 1
            /\ lastAttemptAt' = now
            /\ qualAtAttempt' = nQual
            /\ IF ~dirExists
               THEN \* os.ReadDir fails
                    /\ lastResult' = "readdir"
                    /\ nFail' = nFail + 1
                    /\ UNCHANGED <<pc, retval, lastPaths>>
               ELSE /\ lastPaths' = EnvPaths(ReadDir(dir))
                    /\ pc' = "loading"
                    /\ lastResult' = "inflight"
                    /\ UNCHANGED <<retval, nFail>>
    /\ UNCHANGED <<callVars, serveVars, now, events, errPending, closed, ctxDone, dirExists, dir, nOps,
                   fnCalls, nQual, firstQualAt, lastQualAt, nSeen, cancelPc>>

\* case <-tr.C
WatchTick ==
    /\ pc = "select"
    /\ tickPending
    /\ tickPending' = FALSE
    /\ watched' = AddWatch
    /\ IF ~reloadCheckAt(now, lastUpdate)
       THEN UNCHANGED <<loopVars, attemptVars, lastResult, nFail>>
       ELSE /\ lastUpdate' = ZeroTime
            /\ attempts' = attempts + 1
            /\ lastAttemptAt' = now
            /\ qualAtAttempt' = nQual
            /\ IF ~dirExists
               THEN \* os.ReadDir fails
                    /\ lastResult' = "readdir"
                    /\ nFail' = nFail + 1
                    /\ UNCHANGED <<pc, retval, lastPaths>>
               ELSE /\ lastPaths' = EnvPaths(ReadDir(dir))
                    /\ pc' = "loading"
                    /\ lastResult' = "inflight"
                    /\ UNCHANGED <<retval, nFail>>
    /\ UNCHANGED <<callVars, serveVars, now, events, errPending, closed, ctxDone, dirExists, dir, nOps,
                   fnCalls, nQual, firstQualAt, lastQualAt, nSeen, cancelPc>>

\* Variant of LoadDone for mutation: fn is called whatever the loader
\* returned.
LoadDoneAlwaysCallback(ok) ==
    /\ pc = "loading"
    /\ IF ok
       THEN /\ pc' = "callback"
            /\ fnCalls' = fnCalls + 1
            /\ UNCHANGED <<lastResult, nFail>>
       ELSE /\ pc' = "callback"
            /\ lastResult' = "load"
            /\ nFail' = nFail + 1
            /\ fnCalls' = fnCalls + 1
    /\ UNCHANGED <<callVars, serveVars, now, lastUpdate, retval, chanVars, fsVars, attemptVars,
                   nQual, firstQualAt, lastQualAt, nSeen, cancelPc>>

\* conf.LoadGlobalFiles returns.
LoadDone(ok) ==
    /\ pc = "loading"
    /\ IF ok
       THEN /\ pc' = "callback"
            /\ fnCalls' = fnCalls + 1
            /\ UNCHANGED <<lastResult, nFail>>
       ELSE /\ pc' = "select"
            /\ lastResult' = "load"
            /\ nFail' = nFail + 1
            /\ UNCHANGED fnCalls
    /\ UNCHANGED <<callVars, serveVars, now, lastUpdate, retval, chanVars, fsVars, attemptVars,
                   nQual, firstQualAt, lastQualAt, nSeen, cancelPc>>

\* fn(cfg) returns.
FnReturn ==
    /\ pc = "callback"
    /\ pc' = "select"
    /\ lastResult' = "ok"
    /\ UNCHANGED <<callVars, serveVars, now, lastUpdate, retval, chanVars, fsVars, attemptVars,
                   nFail, fnCalls, nQual, firstQualAt, lastQualAt, nSeen, cancelPc>>

\* Variant of IsChange for mutation: a change of mode marks a change too.
IsChangeOrChmod(op) ==
    \/ Has(op, "Create")
    \/ Has(op, "Remove")
    \/ Has(op, "Rename")
    \/ Has(op, "Write")
    \/ Has(op, "Chmod")

\* The switch of the events case: the operations that mark a change.
IsChange(op) ==
    \/ Has(op, "Create")
    \/ Has(op, "Remove")
    \/ Has(op, "Rename")
    \/ Has(op, "Write")

\* Variant of WatchEvent for mutation: a change is recorded only when none
\* is pending, so the first notification of a burst starts the debounce.
WatchEventFirstOnly ==
    /\ pc = "select"
    /\ ~closed
    /\ events # <<>>
    /\ events' = Tail(events)
    /\ nSeen' = nSeen + 1
    /\ LET evt == Head(events)
       IN IF ~HasSuffix(evt.Name, EnvSuffix)
          THEN UNCHANGED <<lastUpdate, nQual, firstQualAt, lastQualAt>>
          ELSE IF IsChange(evt.Op)
          THEN /\ lastUpdate' = IF IsZero(lastUpdate) THEN now ELSE lastUpdate
               /\ nQual' = nQual + 1
               /\ firstQualAt' = IF nQual = 0 THEN now ELSE firstQualAt
               /\ lastQualAt' = now
          ELSE UNCHANGED <<lastUpdate, nQual, firstQualAt, lastQualAt>>
    /\ UNCHANGED <<callVars, serveVars, now, pc, retval, tickPending, errPending, closed, ctxDone, fsVars,
                   attemptVars, lastResult, nFail, fnCalls, cancelPc>>

\* case evt, ok := <-wr.Events, with ok
WatchEvent ==
    /\ pc = "select"
    /\ ~closed
    /\ events # <<>>
    /\ events' = Tail(events)
    /\ nSeen' = nSeen + 1
    /\ LET evt == Head(events)
       IN IF ~HasSuffix(evt.Name, EnvSuffix)
          THEN UNCHANGED <<lastUpdate, nQual, firstQualAt, lastQualAt>>
          ELSE IF IsChange(evt.Op)
          THEN /\ lastUpdate' = now
               /\ nQual' = nQual + 1
               /\ firstQualAt' = IF nQual = 0 THEN now ELSE firstQualAt
               /\ lastQualAt' = now
          ELSE UNCHANGED <<lastUpdate, nQual, firstQualAt, lastQualAt>>
    /\ UNCHANGED <<callVars, serveVars, now, pc, retval, tickPending, errPending, closed, ctxDone, fsVars,
                   attemptVars, lastResult, nFail, fnCalls, cancelPc>>

\* Variant of WatchEventsClosed for mutation: the closed channel is reported
\* as an error, as a cancellation is.
WatchEventsClosedAsError ==
    /\ pc = "select"
    /\ closed
    /\ pc' = "done"
    /\ retval' = "ctxErr"
    /\ UNCHANGED <<callVars, serveVars, now, lastUpdate, chanVars, fsVars, attemptVars, histVars>>

\* case evt, ok := <-wr.Events, with !ok
WatchEventsClosed ==
    /\ pc = "select"
    /\ closed
    /\ pc' = "done"
    /\ retval' = "nil"
    /\ UNCHANGED <<callVars, serveVars, now, lastUpdate, chanVars, fsVars, attemptVars, histVars>>

\* Variant of WatchError for mutation: the error the watcher reports is
\* returned.
WatchErrorReturned ==
    /\ pc = "select"
    /\ ~closed
    /\ errPending
    /\ errPending' = FALSE
    /\ pc' = "done"
    /\ retval' = "err"
    /\ UNCHANGED <<callVars, serveVars, now, lastUpdate, tickPending, events, closed, ctxDone, fsVars,
                   attemptVars, histVars>>

\* case err, ok := <-wr.Errors, with ok
WatchError ==
    /\ pc = "select"
    /\ ~closed
    /\ errPending
    /\ errPending' = FALSE
    /\ UNCHANGED <<callVars, serveVars, now, loopVars, tickPending, events, closed, ctxDone, fsVars,
                   attemptVars, histVars>>

\* case err, ok := <-wr.Errors, with !ok
WatchErrorsClosed ==
    /\ pc = "select"
    /\ closed
    /\ pc' = "done"
    /\ retval' = "nil"
    /\ UNCHANGED <<callVars, serveVars, now, lastUpdate, chanVars, fsVars, attemptVars, histVars>>

Next ==
    \/ Advance
    \/ \E name \in FileNames, op \in Ops : FsOp(name, op)
    \/ RemoveDir
    \/ CreateDir
    \/ Cancel
    \/ WatcherError
    \/ WatcherExit
    \/ WatchCtxDone
    \/ WatchTick
    \/ \E ok \in BOOLEAN : LoadDone(ok)
    \/ FnReturn
    \/ WatchEvent
    \/ WatchEventsClosed
    \/ WatchError
    \/ WatchErrorsClosed

Spec == Init /\ [][Next]_vars

\* -------------------------------------------------------------------- serve

Conns == 1 .. MaxConns

\* Variant of ServeCancel for mutation: baseCtx is a child of ctx and is
\* cancelled with it.
ServeCancelBaseIsChild ==
    /\ ~serveCtxDone
    /\ srvPc \notin {"fatal", "returned"}
    /\ serveCtxDone' = TRUE
    /\ baseCtxDone' = TRUE
    /\ UNCHANGED <<callVars, watchVars, wg, srvPc, goPc, listening, inShutdown,
                   shutdownErr, elapsed, conns, dbOpen>>

\* The caller of serve cancels ctx.
ServeCancel ==
    /\ ~serveCtxDone
    /\ srvPc \notin {"fatal", "returned"}
    /\ serveCtxDone' = TRUE
    /\ UNCHANGED <<callVars, watchVars, baseCtxDone, wg, srvPc, goPc, listening, inShutdown,
                   shutdownErr, elapsed, conns, dbOpen>>

\* httpSrv.ListenAndServe is called: it returns http.ErrServerClosed at once
\* after Shutdown, and else binds the listener and accepts.
ServeListen ==
    /\ srvPc = "listen"
    /\ IF inShutdown
       THEN srvPc' = "wait" /\ UNCHANGED listening
       ELSE srvPc' = "serving" /\ listening' = TRUE
    /\ UNCHANGED <<callVars, watchVars, serveCtxDone, baseCtxDone, wg, goPc, inShutdown,
                   shutdownErr, elapsed, conns, dbOpen>>

\* httpSrv.ListenAndServe returns another error than http.ErrServerClosed (the
\* address cannot be bound, Accept fails): log.Fatal ends the process.
ServeFatal ==
    /\ srvPc \in {"listen", "serving"}
    /\ ~inShutdown
    /\ srvPc' = "fatal"
    /\ listening' = FALSE
    /\ conns' = {}
    /\ UNCHANGED <<callVars, watchVars, serveCtxDone, baseCtxDone, wg, goPc, inShutdown,
                   shutdownErr, elapsed, dbOpen>>

\* httpSrv.ListenAndServe returns http.ErrServerClosed once Shutdown is called;
\* serve runs its deferred calls, wg.Wait first.
ServeErrServerClosed ==
    /\ srvPc = "serving"
    /\ inShutdown
    /\ srvPc' = "wait"
    /\ UNCHANGED <<callVars, watchVars, serveCtxDone, baseCtxDone, wg, goPc, listening, inShutdown,
                   shutdownErr, elapsed, conns, dbOpen>>

\* Variant of ServeWgWait for mutation: serve does not wait for the goroutine.
ServeWgWaitNoWait ==
    /\ srvPc = "wait"
    /\ srvPc' = "deferred"
    /\ UNCHANGED <<callVars, watchVars, serveCtxDone, baseCtxDone, wg, goPc, listening, inShutdown,
                   shutdownErr, elapsed, conns, dbOpen>>

\* defer wg.Wait()
ServeWgWait ==
    /\ srvPc = "wait"
    /\ wg = 0
    /\ srvPc' = "deferred"
    /\ UNCHANGED <<callVars, watchVars, serveCtxDone, baseCtxDone, wg, goPc, listening, inShutdown,
                   shutdownErr, elapsed, conns, dbOpen>>

\* defer baseCancel(), defer db.Close(), and serve returns.
ServeReturn ==
    /\ srvPc = "deferred"
    /\ baseCtxDone' = TRUE
    /\ dbOpen' = FALSE
    /\ srvPc' = "returned"
    /\ UNCHANGED <<callVars, watchVars, serveCtxDone, wg, goPc, listening, inShutdown,
                   shutdownErr, elapsed, conns>>

\* The goroutine receives from ctx.Done() and calls httpSrv.Shutdown with a
\* context that expires after time.Minute: the listener is closed.
GoCtxDone ==
    /\ srvPc # "fatal"
    /\ goPc = "waitCtx"
    /\ serveCtxDone
    /\ goPc' = "shutdown"
    /\ inShutdown' = TRUE
    /\ listening' = FALSE
    /\ elapsed' = 0
    /\ UNCHANGED <<callVars, watchVars, serveCtxDone, baseCtxDone, wg, srvPc, shutdownErr, conns,
                   dbOpen>>

\* Variant of GoShutdownReturn for mutation: the context handed to
\* httpSrv.Shutdown has no deadline.
GoShutdownReturnNoDeadline(err) ==
    /\ srvPc # "fatal"
    /\ goPc = "shutdown"
    /\ err = "nil"
    /\ conns = {}
    /\ shutdownErr' = err
    /\ goPc' = "deferred"
    /\ UNCHANGED <<callVars, watchVars, serveCtxDone, baseCtxDone, wg, srvPc, listening, inShutdown,
                   elapsed, conns, dbOpen>>

\* httpSrv.Shutdown returns: nil when no connection is active, the context's
\* error when shutdownCtx expires first.  It closes no active connection.
GoShutdownReturn(err) ==
    /\ srvPc # "fatal"
    /\ goPc = "shutdown"
    /\ \/ err = "nil" /\ conns = {}
       \/ err = "deadline" /\ elapsed >= Minute
    /\ shutdownErr' = err
    /\ goPc' = "deferred"
    /\ UNCHANGED <<callVars, watchVars, serveCtxDone, baseCtxDone, wg, srvPc, listening, inShutdown,
                   elapsed, conns, dbOpen>>

\* defer shutdownCancel(), defer baseCancel()
GoBaseCancel ==
    /\ srvPc # "fatal"
    /\ goPc = "deferred"
    /\ baseCtxDone' = TRUE
    /\ goPc' = "wgDone"
    /\ UNCHANGED <<callVars, watchVars, serveCtxDone, wg, srvPc, listening, inShutdown, shutdownErr,
                   elapsed, conns, dbOpen>>

\* defer wg.Done()
GoWgDone ==
    /\ srvPc # "fatal"
    /\ goPc = "wgDone"
    /\ wg' = wg - 1
    /\ goPc' = "done"
    /\ UNCHANGED <<callVars, watchVars, serveCtxDone, baseCtxDone, srvPc, listening, inShutdown,
                   shutdownErr, elapsed, conns, dbOpen>>

\* httpSrv accepts a connection and starts on its request.
ConnAccept(c) ==
    /\ srvPc = "serving"
    /\ listening
    /\ ~inShutdown
    /\ c \notin conns
    /\ conns' = conns \cup {c}
    /\ UNCHANGED <<callVars, watchVars, serveCtxDone, baseCtxDone, wg, srvPc, goPc, listening,
                   inShutdown, shutdownErr, elapsed, dbOpen>>

\* A connection finishes its request and closes.
ConnFinish(c) ==
    /\ srvPc # "fatal"
    /\ c \in conns
    /\ conns' = conns \ {c}
    /\ UNCHANGED <<callVars, watchVars, serveCtxDone, baseCtxDone, wg, srvPc, goPc, listening,
                   inShutdown, shutdownErr, elapsed, dbOpen>>

\* One unit of time passes while httpSrv.Shutdown waits for the connections.
ShutdownTick ==
    /\ srvPc # "fatal"
    /\ goPc = "shutdown"
    /\ conns # {}
    /\ elapsed < Minute
    /\ elapsed' = elapsed + 1
    /\ UNCHANGED <<callVars, watchVars, serveCtxDone, baseCtxDone, wg, srvPc, goPc, listening,
                   inShutdown, shutdownErr, conns, dbOpen>>

ServeNext ==
    \/ ServeCancel
    \/ ServeListen
    \/ ServeFatal
    \/ ServeErrServerClosed
    \/ ServeWgWait
    \/ ServeReturn
    \/ GoCtxDone
    \/ \E err \in {"nil", "deadline"} : GoShutdownReturn(err)
    \/ GoBaseCancel
    \/ GoWgDone
    \/ \E c \in Conns : ConnAccept(c)
    \/ \E c \in Conns : ConnFinish(c)
    \/ ShutdownTick

SpecServe == Init /\ [][ServeNext]_vars

\* The goroutines of serve are scheduled, the calls they block in return when
\* they can, and time passes while httpSrv.Shutdown waits.
FairSpecServe ==
    /\ Init
    /\ [][ServeNext]_vars
    /\ WF_vars(ServeListen)
    /\ WF_vars(ServeErrServerClosed)
    /\ WF_vars(ServeWgWait)
    /\ WF_vars(ServeReturn)
    /\ WF_vars(GoCtxDone)
    /\ WF_vars(\E err \in {"nil", "deadline"} : GoShutdownReturn(err))
    /\ WF_vars(GoBaseCancel)
    /\ WF_vars(GoWgDone)
    /\ WF_vars(ShutdownTick)

\* The process: serve and, beside it, the reload loop under the same ctx
\* (the context of the command).  Nothing of serve starts Watch or waits
\* for it, so the loop is a goroutine of its own, here with nothing but the
\* cancellation happening to it.
ProcessCancel ==
    /\ ~serveCtxDone
    /\ srvPc \notin {"fatal", "returned"}
    /\ serveCtxDone' = TRUE
    /\ ctxDone' = TRUE
    /\ cancelPc' = pc
    /\ UNCHANGED <<callVars, now, loopVars, tickPending, events, errPending, closed, fsVars,
                   attemptVars, lastResult, nFail, fnCalls, nQual, firstQualAt, lastQualAt, nSeen,
                   baseCtxDone, wg, srvPc, goPc, listening, inShutdown,
                   shutdownErr, elapsed, conns, dbOpen>>

ProcessNext ==
    \/ ProcessCancel
    \/ WatchCtxDone
    \/ ServeListen
    \/ ServeFatal
    \/ ServeErrServerClosed
    \/ ServeWgWait
    \/ ServeReturn
    \/ GoCtxDone
    \/ \E err \in {"nil", "deadline"} : GoShutdownReturn(err)
    \/ GoBaseCancel
    \/ GoWgDone
    \/ \E c \in Conns : ConnAccept(c)
    \/ \E c \in Conns : ConnFinish(c)
    \/ ShutdownTick

SpecProcess == Init /\ [][ProcessNext]_vars

\* ---------------------------------------------------------- single calls

\* The call rl.reloadCheckAt(at, lastUpdate) on its own, for every pair of
\* arguments: lastUpdate the zero time or a time of the clock, at a time of
\* the clock before, at or after it.
CheckAtInit ==
    /\ WatchInit
    /\ dirExists = TRUE
    /\ ServeInit
    /\ argAt \in 0 .. MaxTime
    /\ argLastUpdate \in {ZeroTime} \cup (0 .. MaxTime)
    /\ checkResult = FALSE
    /\ dirEnts = {}
    /\ loadPaths = <<>>
    /\ callPc = "idle"

CallReloadCheckAt ==
    /\ callPc = "idle"
    /\ checkResult' = reloadCheckAt(argAt, argLastUpdate)
    /\ callPc' = "returned"
    /\ UNCHANGED <<watchVars, serveVars, argAt, argLastUpdate, dirEnts, loadPaths>>

SpecCheckAt == CheckAtInit /\ [][CallReloadCheckAt]_vars

\* A name shorter than the suffix.
NameD == <<"e", "n", "v">>

ListNames == {NameA, NameB, NameC, NameD}

\* The contents a directory can have: each name is absent, a file or a
\* subdirectory.
Dirs ==
    {d \in SUBSET [name : ListNames, isDir : BOOLEAN] :
        \A e1, e2 \in d : e1.name = e2.name => e1 = e2}

\* The call rl.reloadConfig() on its own, up to the call of
\* conf.LoadGlobalFiles, for every content of the directory.
ReloadConfigInit ==
    /\ WatchInit
    /\ dirExists = TRUE
    /\ ServeInit
    /\ argAt = 0
    /\ argLastUpdate = ZeroTime
    /\ checkResult = FALSE
    /\ dirEnts \in Dirs
    /\ loadPaths = <<>>
    /\ callPc = "idle"

CallReloadConfig ==
    /\ callPc = "idle"
    /\ loadPaths' = EnvPaths(ReadDir(dirEnts))
    /\ callPc' = "returned"
    /\ UNCHANGED <<watchVars, serveVars, argAt, argLastUpdate, checkResult, dirEnts>>

SpecReloadConfig == ReloadConfigInit /\ [][CallReloadConfig]_vars

\* ------------------------------------------------ further specifications

\* Watch with a watcher that stays open on a directory that stays in place:
\* files change, time passes and ctx may be cancelled.
OpenNext ==
    \/ Advance
    \/ \E name \in FileNames, op \in Ops : FsOp(name, op)
    \/ Cancel
    \/ WatchCtxDone
    \/ WatchTick
    \/ \E ok \in BOOLEAN : LoadDone(ok)
    \/ FnReturn
    \/ WatchEvent

OpenInit == Init /\ dirExists = TRUE

\* The goroutine running Watch is scheduled: select takes the ctx.Done case
\* when it stays ready, and the calls Watch blocks in return.
FairSpec ==
    /\ OpenInit
    /\ [][OpenNext]_vars
    /\ WF_vars(WatchCtxDone)
    /\ WF_vars(\E ok \in BOOLEAN : LoadDone(ok))
    /\ WF_vars(FnReturn)

\* The scenario of two files created one second apart in an empty, watched
\* directory: a.env at some time before the second tick, b.env one second
\* after it, and nothing else.
ScenCreateA ==
    /\ dirExists
    /\ nOps = 0
    /\ FsOp(NameA, {"Create"})

ScenCreateB ==
    /\ nOps = 1
    /\ nQual = 1
    /\ now = firstQualAt + Second
    /\ FsOp(NameB, {"Create"})

ScenAdvance ==
    /\ nOps = 0 => now + 1 < 2 * rl.tickerIval
    /\ nOps = 1 => now < firstQualAt + Second
    /\ Advance

ScenarioNext ==
    \/ ScenAdvance
    \/ ScenCreateA
    \/ ScenCreateB
    \/ WatchTick
    \/ \E ok \in BOOLEAN : LoadDone(ok)
    \/ FnReturn
    \/ WatchEvent

SpecScenario == OpenInit /\ [][ScenarioNext]_vars

\* ------------------------------------------------------------------ claims

\* A step in which Watch calls reloadConfig.
AttemptStarts == attempts' = attempts + 1

\* Watch is in its loop, ctx is not cancelled and the watcher is open.
Running == pc # "done" /\ ~ctxDone /\ ~closed

Failed == lastResult \in {"readdir", "load"}

\* The paths of the files of a directory whose name ends in .env.
EnvFilesOf(d) == {JoinPath(e.name) : e \in {x \in d : ~x.isDir /\ HasSuffix(x.name, EnvSuffix)}}

Listed(paths) == {paths[i] : i \in DOMAIN paths}

\* C1: two successive reload attempts never start less than reloadIval apart:
\* whenever Watch calls reloadConfig after an earlier call, at least
\* reloadIval has passed since the earlier call started.
C1_AttemptsReloadIvalApart ==
    [][AttemptStarts /\ attempts >= 1 => now - lastAttemptAt >= rl.reloadIval]_vars

\* C1 witness: a second reload attempt has started.
C1_Witness == attempts = 2 /\ now - lastAttemptAt = 0

\* C2: a burst of qualifying notifications spanning less than reloadIval is
\* answered by exactly one reload attempt: the attempt that consumes such a
\* burst is the first one, it lists the files the directory holds when it
\* starts, no attempt follows without a further notification, and while the
\* loop runs the burst waits for its attempt less than reloadIval + tickerIval.
C2_BurstCoalesced ==
    /\ [][AttemptStarts /\ lastUpdate - firstQualAt < rl.reloadIval
            => /\ attempts = 0
               /\ dirExists => Listed(lastPaths') = EnvFilesOf(dir)]_vars
    /\ [][AttemptStarts => nQual > qualAtAttempt]_vars
    /\ [](Running /\ nQual >= 1 /\ attempts = 0
            => ~IsZero(lastUpdate) /\ now - lastUpdate < rl.reloadIval + rl.tickerIval)

\* C2 witness: one attempt has consumed a burst of two notifications that
\* both lie within reloadIval of the first, and listed two files.
C2_Witness ==
    /\ attempts = 1
    /\ qualAtAttempt = 2
    /\ lastAttemptAt - firstQualAt < 2 * rl.reloadIval
    /\ Len(lastPaths) = 2

\* C3, as stated: in the scenario the only reload attempt starts between 10
\* and 11 seconds after a.env was created and loads a.env, b.env in order.
C3_AttemptWithinElevenSeconds ==
    /\ attempts >= 1 =>
          /\ attempts = 1
          /\ lastAttemptAt - firstQualAt \in (10 * Second) .. (11 * Second)
          /\ lastPaths = <<JoinPath(NameA), JoinPath(NameB)>>
    /\ nQual = 2 /\ now - firstQualAt > 11 * Second => attempts = 1

\* C3, amended: in the scenario the only reload attempt starts between
\* reloadIval and reloadIval + tickerIval after b.env was created, which is
\* 11 to 12 seconds after a.env was created, and loads a.env, b.env in order.
C3_AttemptAfterLastEvent ==
    /\ attempts >= 1 =>
          /\ attempts = 1
          /\ lastAttemptAt - (firstQualAt + Second)
                \in rl.reloadIval .. (rl.reloadIval + rl.tickerIval)
          /\ lastPaths = <<JoinPath(NameA), JoinPath(NameB)>>
    /\ nQual = 2 /\ now - (firstQualAt + Second) >= rl.reloadIval + rl.tickerIval
          => attempts = 1

\* C3 witness: the attempt of the scenario has been made and its callback
\* has returned.
C3_Witness ==
    /\ nQual = 2
    /\ attempts = 1
    /\ lastResult = "ok"
    /\ lastPaths = <<JoinPath(NameA), JoinPath(NameB)>>

\* C4: a single qualifying notification handled at time T is answered by
\* exactly one reload attempt, which starts in
\* [T + reloadIval, T + reloadIval + tickerIval]; while the loop runs, the
\* attempt has been made once that time has passed.
C4_SingleEventOneAttempt ==
    /\ [][AttemptStarts /\ nQual = 1
            => /\ attempts = 0
               /\ now - firstQualAt \in rl.reloadIval .. (rl.reloadIval + rl.tickerIval)]_vars
    /\ [](Running /\ nQual = 1 /\ now - firstQualAt >= rl.reloadIval + rl.tickerIval
            => attempts = 1)

\* C4 witness: one notification, one attempt, and the loop still runs after
\* the latest time the attempt may start.
C4_Witness ==
    /\ Running
    /\ nQual = 1
    /\ attempts = 1
    /\ now - firstQualAt > rl.reloadIval + rl.tickerIval

\* C5: as long as Watch has handled no qualifying notification, it has
\* started no reload attempt, has not called fn, and lastUpdate is unset.
C5_NoEventNoReload ==
    nQual = 0 => attempts = 0 /\ fnCalls = 0 /\ IsZero(lastUpdate)

\* C5 witness: ticks have fired for longer than reloadIval + tickerIval and
\* notifications were handled, none of them qualifying.
C5_Witness ==
    /\ Running
    /\ nQual = 0
    /\ nSeen >= 2
    /\ now > rl.reloadIval + rl.tickerIval

\* C6: fn is called for exactly the attempts whose load succeeded; a failed
\* attempt leaves lastUpdate unset and the loop in its select; after a failed
\* attempt a new attempt starts only when a qualifying notification was
\* handled since, and then within reloadIval + tickerIval of it.
C6_FailedReload ==
    /\ [](attempts = nFail + fnCalls + (IF pc = "loading" THEN 1 ELSE 0))
    /\ [][nFail' = nFail + 1
            => fnCalls' = fnCalls /\ IsZero(lastUpdate') /\ pc' = "select"]_vars
    /\ [][AttemptStarts /\ Failed => nQual > qualAtAttempt]_vars
    /\ [](Failed /\ Running /\ ~IsZero(lastUpdate)
            => now - lastUpdate < rl.reloadIval + rl.tickerIval)

\* C6 witness: of two attempts the first failed and the second, made for a
\* later notification, called fn.
C6_Witness ==
    /\ attempts = 2
    /\ nFail = 1
    /\ fnCalls = 1
    /\ lastResult = "ok"

\* C7, as stated: no reload attempt starts once ctx is cancelled.
C7_NoAttemptAfterCancel == [][ctxDone => ~AttemptStarts]_vars

\* C8: when ctx is cancelled while a reload attempt is in flight (the loader
\* or the callback outstanding), Watch starts no further attempt and
\* eventually returns ctx.Err().
C8_CancelMidFlight ==
    /\ [][(cancelPc \in {"loading", "callback"}) => ~AttemptStarts]_vars
    /\ (cancelPc \in {"loading", "callback"}) ~> (pc = "done" /\ retval = "ctxErr")

\* C8 witness: Watch has returned ctx.Err() after a cancellation that came
\* while conf.LoadGlobalFiles was outstanding.
C8_Witness == cancelPc = "loading" /\ pc = "done" /\ retval = "ctxErr" /\ fnCalls = 1

\* C9: serve has returned only after ctx was cancelled, httpSrv.Shutdown
\* returned, and the goroutine ran its deferred calls up to wg.Done.
C9_ReturnAfterShutdown ==
    srvPc = "returned"
        => /\ serveCtxDone
           /\ shutdownErr # "none"
           /\ goPc = "done"
           /\ wg = 0

\* C9 witness: serve has returned after a shutdown that ran into its bound.
C9_Witness == srvPc = "returned" /\ shutdownErr = "deadline"

\* C10, as stated: once serve has returned, no connection is being processed.
C10_NoConnAfterReturn == srvPc = "returned" => conns = {}

\* C11: the wait of httpSrv.Shutdown ends at the earlier of all connections
\* having finished and time.Minute having passed: it never lasts longer than
\* time.Minute, time passes in it only while a connection is unfinished and
\* the bound is not reached, it returns nil only with no connection left and
\* the deadline error only at time.Minute, and whatever it returns serve
\* goes on to return.
C11_ShutdownBounded ==
    /\ [](elapsed <= Minute)
    /\ [][elapsed' > elapsed => goPc = "shutdown" /\ conns # {} /\ elapsed < Minute]_vars
    /\ [][goPc = "shutdown" /\ goPc' # "shutdown"
            => \/ shutdownErr' = "nil" /\ conns = {}
               \/ shutdownErr' = "deadline" /\ elapsed = Minute]_vars
    /\ inShutdown ~> (srvPc = "returned")

\* C11 witness: httpSrv.Shutdown gave up at time.Minute with a connection
\* still unfinished, and the goroutine went on to its end.
C11_Witness ==
    /\ goPc = "done"
    /\ shutdownErr = "deadline"
    /\ elapsed = Minute
    /\ conns # {}

\* C12, as stated: serve has returned only when both the goroutine that
\* shuts httpSrv down and the reload loop have finished.
C12_ServeJoinsBoth == srvPc = "returned" => goPc = "done" /\ pc = "done"

\* A step in which Watch takes a tick from tr.C.
TickHandled == tickPending /\ ~tickPending'

\* A step in which Watch takes an error from wr.Errors.
ErrorHandled == errPending /\ ~errPending' /\ ~closed'

\* C13: Watch returns nil only when the watcher has closed its channels and
\* ctx.Err() only when ctx is cancelled, and nothing else: a return while
\* the watcher is open is ctx.Err(), a return while ctx is not cancelled is
\* nil.
C13_ClosedIsNilCancelIsErr ==
    /\ pc = "done" <=> retval # "none"
    /\ retval \in {"none", "nil", "ctxErr"}
    /\ retval = "nil" => closed
    /\ retval = "ctxErr" => ctxDone

\* C13 witness: Watch has returned nil after the watcher closed its
\* channels, with ctx not cancelled and a reload made before.
C13_Witness == pc = "done" /\ retval = "nil" /\ ~ctxDone /\ attempts = 1

\* C14: Watch returns only from its select and only when ctx is cancelled
\* or the watcher has closed its channels; after an error of the watcher,
\* after a failed wr.Add and after a failed reload it is back in its select.
C14_ErrorsDoNotStopLoop ==
    /\ [][pc' = "done" /\ pc # "done" => pc = "select" /\ (ctxDone \/ closed)]_vars
    /\ [][ErrorHandled => pc' = "select" /\ retval' = "none"]_vars
    /\ [][TickHandled /\ ~dirExists => ~watched' /\ pc' = "select" /\ retval' = "none"]_vars
    /\ [][nFail' = nFail + 1 => pc' = "select" /\ retval' = "none"]_vars

\* C14 witness: the reload failed on the removed directory, whose
\* registration failed too, and the loop has taken the ticks of the two
\* intervals since and waits in its select.
C14_Witness ==
    /\ Running
    /\ pc = "select"
    /\ ~tickPending
    /\ ~dirExists
    /\ ~watched
    /\ lastResult = "readdir"
    /\ now - lastAttemptAt >= 2 * rl.tickerIval

\* C15: a tick taken while the directory is missing leaves the loop running;
\* every tick taken while the directory exists and the watcher is open
\* leaves the directory registered; a registered directory stays registered
\* until it is removed or the watcher closes; and a change of a file in a
\* registered directory is notified to the loop.
C15_RegistrationRetried ==
    /\ [][TickHandled /\ ~dirExists => pc' # "done"]_vars
    /\ [][TickHandled /\ dirExists /\ ~closed => watched']_vars
    /\ [][watched /\ ~watched' => ~dirExists' \/ closed']_vars
    /\ [][nOps' = nOps + 1 /\ dirExists /\ dirExists' /\ watched /\ ~closed
            => Len(events') = Len(events) + 1]_vars
    /\ [](watched => dirExists /\ ~closed)

\* C15 witness: the directory was missing when Watch started and was created
\* later; a tick registered it, the creation of a file in it was notified
\* and the reload for it has called fn.
C15_Witness ==
    /\ ~closed
    /\ watched
    /\ nOps = 2
    /\ dir # {}
    /\ nSeen = 1
    /\ events = <<>>
    /\ attempts = 1
    /\ lastResult = "ok"

\* C16: reloadCheckAt(at, lastUpdate) returns true exactly when lastUpdate
\* is not the zero time and at - lastUpdate is reloadIval or more, and the
\* call changes nothing but its result.
C16_ReloadCheckAtReference ==
    [][callPc' = "returned"
        => /\ checkResult' = (argLastUpdate # ZeroTime /\ argAt - argLastUpdate >= reloadInterval)
           /\ argLastUpdate = ZeroTime => ~checkResult'
           /\ argAt < argLastUpdate => ~checkResult'
           /\ UNCHANGED <<argAt, argLastUpdate, lastUpdate, now>>]_vars

\* C16 witness: a call returned true for an update exactly reloadIval old.
C16_Witness ==
    /\ callPc = "returned"
    /\ checkResult
    /\ argAt - argLastUpdate = reloadInterval

\* The entries of a directory that are files whose name ends in .env.
EnvFiles(d) == {e \in d : ~e.isDir /\ HasSuffix(e.name, EnvSuffix)}

\* C18: the paths reloadConfig hands to the loader are the files of the
\* directory whose name ends in .env, each once and joined with watchDir,
\* in ascending order of the file names; no subdirectory and no name
\* without the suffix is among them.
C18_PathsFilteredAndSorted ==
    callPc = "returned" =>
        /\ Listed(loadPaths) = {JoinPath(e.name) : e \in EnvFiles(dirEnts)}
        /\ Len(loadPaths) = Cardinality(EnvFiles(dirEnts))
        /\ \A i, j \in DOMAIN loadPaths : i < j => StrLess(loadPaths[i], loadPaths[j])
        /\ \A e \in dirEnts :
              e.isDir \/ ~HasSuffix(e.name, EnvSuffix) => JoinPath(e.name) \notin Listed(loadPaths)

\* C18 witness: of a directory with two .env files, a subdirectory and a
\* file without the suffix, the two files were listed in order.
C18_Witness ==
    /\ callPc = "returned"
    /\ Cardinality(dirEnts) = 4
    /\ \E e \in dirEnts : e.isDir
    /\ loadPaths = <<JoinPath(NameA), JoinPath(NameB)>>

\* C17: baseCtx is cancelled only after ctx is cancelled and
\* httpSrv.Shutdown has returned; it is cancelled once the goroutine has run
\* its deferred baseCancel after httpSrv.Shutdown, and whenever serve has
\* returned; once cancelled it stays cancelled.
C17_BaseCtxCancelledAtShutdown ==
    /\ [](baseCtxDone => serveCtxDone /\ shutdownErr # "none")
    /\ [](goPc \in {"wgDone", "done"} => baseCtxDone)
    /\ [](srvPc = "returned" => baseCtxDone)
    /\ [][~baseCtxDone /\ baseCtxDone' => goPc = "deferred" /\ goPc' = "wgDone"]_vars
    /\ [][baseCtxDone => baseCtxDone']_vars

\* C17 witness: the goroutine has cancelled baseCtx after a shutdown that
\* ran into its bound, with a connection unfinished and serve not yet
\* returned.
C17_Witness ==
    /\ baseCtxDone
    /\ goPc = "wgDone"
    /\ shutdownErr = "deadline"
    /\ conns # {}
    /\ srvPc # "returned"

\* A step in which Watch takes a notification from wr.Events.
EventHandled == nSeen' = nSeen + 1

\* C19: handling a notification sets lastUpdate to the current time when
\* the name ends in .env and the operation includes create, remove, rename
\* or write, and leaves lastUpdate as it is otherwise; in neither case does
\* the step start a reload or leave the select.
C19_EventFrame ==
    [][EventHandled =>
         LET evt == Head(events)
             marks == /\ HasSuffix(evt.Name, EnvSuffix)
                      /\ evt.Op \cap {"Create", "Remove", "Rename", "Write"} # {}
         IN /\ marks => lastUpdate' = now
            /\ ~marks => lastUpdate' = lastUpdate
            /\ UNCHANGED <<pc, attempts, fnCalls, retval>>]_vars

\* C19 witness: a.env was created and then had its mode changed; both
\* notifications are handled and the pending update still carries the time
\* of the creation, which lies in the past.
C19_Witness ==
    /\ dir = {File(NameA)}
    /\ nOps = 2
    /\ nSeen = 2
    /\ nQual = 1
    /\ events = <<>>
    /\ lastUpdate = firstQualAt
    /\ now > lastUpdate

\* C20: every reload attempt starts reloadIval or more after the last
\* qualifying notification handled before it, and a pending lastUpdate is
\* the time of that last notification, so that each further notification
\* of a burst moves the attempt on.
C20_DebounceFromLastEvent ==
    /\ [][AttemptStarts => ~IsZero(lastQualAt) /\ now - lastQualAt >= rl.reloadIval]_vars
    /\ [](~IsZero(lastUpdate) => lastUpdate = lastQualAt)
    /\ [](nQual >= 1 /\ attempts = 0 => lastUpdate = lastQualAt)

\* C20 witness: the second of two notifications came more than tickerIval
\* and less than reloadIval after the first, and the one attempt for both
\* started later than an attempt for the first alone could have.
C20_Witness ==
    /\ attempts = 1
    /\ qualAtAttempt = 2
    /\ lastQualAt - firstQualAt > rl.tickerIval
    /\ lastQualAt - firstQualAt < rl.reloadIval
    /\ lastAttemptAt - firstQualAt > rl.reloadIval + rl.tickerIval

====
